---- MODULE Spec2Model ----
(***************************************************************************)
(* ScreenshotDisplay (src/src/screenshotdisplay.cpp): the full-screen      *)
(* capture surface with its selection rectangle, drawing state machine,    *)
(* text session and undo stack, as a state machine over its event          *)
(* handlers.                                                               *)
(*                                                                         *)
(* Geometry follows QPoint / QRect: a rectangle is stored by its two       *)
(* inclusive corners (x1,y1)-(x2,y2), width = x2 - x1 + 1.                 *)
(* The annotation layer (drawingPixmap) is the sequence of paint commands  *)
(* applied to the initially transparent pixmap.                            *)
(***************************************************************************)
EXTENDS Integers, Sequences, FiniteSets, TLC

\* ---------------------------------------------------------------- bounds
MaxUndo == 2          \* deepest undo stack explored
MaxMarks == 1         \* most paint commands in the annotation layer
MaxFontSize == 18     \* largest font point size explored
ImgW == 100           \* width of the captured image (the screen)
ImgH == 80            \* height of the captured image

\* ------------------------------------------------------ program constants
handleSize == 20
InitBorderWidth == 5
MinBorderWidth == 1
MaxBorderWidth == 20
InitFontSize == 16
WheelStep == 120

\* --------------------------------------------------------------- geometry
Pt(x, y) == [x |-> x, y |-> y]
PtAdd(p, q) == Pt(p.x + q.x, p.y + q.y)
PtSub(p, q) == Pt(p.x - q.x, p.y - q.y)

QSize(w, h) == [w |-> w, h |-> h]
\* QSize(): an invalid size
QSizeDefault == QSize(-1, -1)

QRect4(a, b, c, d) == [x1 |-> a, y1 |-> b, x2 |-> c, y2 |-> d]
\* QRect(): the null rectangle
QRectDefault == QRect4(0, 0, -1, -1)
\* QRect(topLeft, bottomRight)
QRectPP(p, q) == QRect4(p.x, p.y, q.x, q.y)
\* QRect(topLeft, size)
QRectPS(p, s) == QRect4(p.x, p.y, p.x + s.w - 1, p.y + s.h - 1)

Width(r) == r.x2 - r.x1 + 1
Height(r) == r.y2 - r.y1 + 1
IsValid(r) == r.x1 <= r.x2 /\ r.y1 <= r.y2
IsEmpty(r) == r.x1 > r.x2 \/ r.y1 > r.y2
TopLeft(r) == Pt(r.x1, r.y1)
TopRight(r) == Pt(r.x2, r.y1)
BottomLeft(r) == Pt(r.x1, r.y2)
BottomRight(r) == Pt(r.x2, r.y2)
Translated(r, p) == QRect4(r.x1 + p.x, r.y1 + p.y, r.x2 + p.x, r.y2 + p.y)
MoveTopLeft(r, p) == QRect4(p.x, p.y, r.x2 + (p.x - r.x1), r.y2 + (p.y - r.y1))

\* C++ integer division (b > 0): truncates toward zero
CppDiv(a, b) == IF a >= 0 THEN a \div b ELSE -((-a) \div b)

Min(a, b) == IF a < b THEN a ELSE b
Max(a, b) == IF a > b THEN a ELSE b
Abs(a) == IF a < 0 THEN -a ELSE a
Clamp(v, lo, hi) == IF v < lo THEN lo ELSE IF hi < v THEN hi ELSE v

\* QRect::contains(QPoint): a rectangle of negative extent is read flipped
Contains(r, p) ==
    LET l == IF r.x2 < r.x1 - 1 THEN r.x2 ELSE r.x1
        rr == IF r.x2 < r.x1 - 1 THEN r.x1 ELSE r.x2
        t == IF r.y2 < r.y1 - 1 THEN r.y2 ELSE r.y1
        b == IF r.y2 < r.y1 - 1 THEN r.y1 ELSE r.y2
    IN  l <= p.x /\ p.x <= rr /\ t <= p.y /\ p.y <= b

\* QRect::intersected for two normalized rectangles; the null rectangle when
\* they do not meet
Intersected(r, s) ==
    IF IsEmpty(r) \/ IsEmpty(s) THEN QRectDefault
    ELSE LET i == QRect4(Max(r.x1, s.x1), Max(r.y1, s.y1),
                         Min(r.x2, s.x2), Min(r.y2, s.y2))
         IN  IF IsEmpty(i) THEN QRectDefault ELSE i

ImageRect == QRect4(0, 0, ImgW - 1, ImgH - 1)

\* ------------------------------------------------------------------ state
NoTool == "None"
Pen == "Pen"
Rectangle == "Rectangle"
Ellipse == "Ellipse"
Line == "Line"
Arrow == "Arrow"
TextTool == "Text"
Tools == {NoTool, Pen, Rectangle, Ellipse, Line, Arrow, TextTool}
ShapeTools == {Rectangle, Ellipse, Line, Arrow}

NoHandle == "None"
HandleOrder ==
    <<"TopLeft", "TopRight", "BottomLeft", "BottomRight",
      "Top", "Bottom", "Left", "Right">>

\* textEdit == nullptr
NullEdit == [null |-> TRUE, lines |-> <<>>, font |-> 0]
\* an open QTextEdit showing `lines` in a font of point size `font`
OpenEdit(lines, font) == [null |-> FALSE, lines |-> lines, font |-> font]

VARIABLES
    qtMajor,           \* the Qt major version of the build (5 or 6)
    editorTool,        \* Editor: the tool getCurrentTool() returns
    currentTool,
    selectionStarted,
    movingSelection,
    currentHandle,
    drawing,
    shapeDrawing,
    selectionRect,
    origin,
    lastPoint,
    drawingEnd,
    handleOffset,
    selectionOffset,
    currentShapeRect,
    borderWidth,
    drawingPixmap,
    undoStack,
    textEdit,          \* NullEdit, or the open QTextEdit
    textEditPosition,
    currentFont,       \* point size of currentFont
    qTextEdits,        \* QTextEdit children alive and not scheduled for deletion
    clipboard,         \* <<>>, or the one pixmap last set on the clipboard
    savedFile,         \* <<>>, or the one image last written to a file
    visible,
    closedCount,       \* screenshotClosed() emissions so far
    lastEvent          \* the handler that ran last

toolVars == <<editorTool, currentTool>>
selVars == <<selectionStarted, movingSelection, currentHandle, selectionRect,
             origin, handleOffset, selectionOffset>>
drawVars == <<drawing, shapeDrawing, lastPoint, drawingEnd, currentShapeRect>>
layerVars == <<drawingPixmap, undoStack>>
textVars == <<textEdit, textEditPosition, qTextEdits>>
outVars == <<clipboard, savedFile>>
closeVars == <<visible, closedCount>>

vars == <<qtMajor, editorTool, currentTool, selectionStarted, movingSelection,
          currentHandle, drawing, shapeDrawing, selectionRect, origin,
          lastPoint, drawingEnd, handleOffset, selectionOffset,
          currentShapeRect, borderWidth, drawingPixmap, undoStack, textEdit,
          textEditPosition, currentFont, qTextEdits, clipboard, savedFile,
          visible, closedCount, lastEvent>>

\* QRect::normalized(). Qt 5 swaps the corners of a negative extent; Qt 6
\* swaps them and moves each one pixel inward.
Normalized(r) ==
    IF qtMajor = 5
    THEN QRect4(IF r.x2 < r.x1 - 1 THEN r.x2 ELSE r.x1,
                IF r.y2 < r.y1 - 1 THEN r.y2 ELSE r.y1,
                IF r.x2 < r.x1 - 1 THEN r.x1 ELSE r.x2,
                IF r.y2 < r.y1 - 1 THEN r.y1 ELSE r.y2)
    ELSE QRect4(IF r.x2 < r.x1 THEN r.x2 + 1 ELSE r.x1,
                IF r.y2 < r.y1 THEN r.y2 + 1 ELSE r.y1,
                IF r.x2 < r.x1 THEN r.x1 - 1 ELSE r.x2,
                IF r.y2 < r.y1 THEN r.y1 - 1 ELSE r.y2)

Init ==
    /\ qtMajor \in {5, 6}
    /\ editorTool = NoTool
    /\ currentTool = NoTool
    /\ selectionStarted = FALSE
    /\ movingSelection = FALSE
    /\ currentHandle = NoHandle
    /\ drawing = FALSE
    /\ shapeDrawing = FALSE
    /\ selectionRect = QRectDefault
    /\ origin = Pt(0, 0)
    /\ lastPoint = Pt(0, 0)
    /\ drawingEnd = Pt(0, 0)
    /\ handleOffset = Pt(0, 0)
    /\ selectionOffset = Pt(0, 0)
    /\ currentShapeRect = QRectDefault
    /\ borderWidth = InitBorderWidth
    /\ drawingPixmap = <<>>
    /\ undoStack = <<>>
    /\ textEdit = NullEdit
    /\ textEditPosition = Pt(0, 0)
    /\ currentFont = InitFontSize
    /\ qTextEdits = 0
    /\ clipboard = <<>>
    /\ savedFile = <<>>
    /\ visible = TRUE
    /\ closedCount = 0
    /\ lastEvent = "init"


\* ------------------------------------------------------- paint commands
\* One QPainter call on the annotation layer: its kind, two points (a
\* segment's ends, or a rectangle's corners, or a text anchor), the pen
\* width (the font size for text) and the text lines.
Mark(k, a, b, w, t) == [k |-> k, a |-> a, b |-> b, w |-> w, t |-> t]

\* painter.drawLine(lastPoint, event->pos()) of a pen stroke
PenMark(p) == Mark(Pen, lastPoint, p, borderWidth, <<>>)

\* the switch of mouseReleaseEvent: what the commit paints, if anything
ShapeMarks ==
    IF editorTool \in {Rectangle, Ellipse}
    THEN <<Mark(editorTool, TopLeft(currentShapeRect),
                BottomRight(currentShapeRect), borderWidth, <<>>)>>
    ELSE IF editorTool \in {Line, Arrow}
    THEN <<Mark(editorTool, lastPoint, drawingEnd, borderWidth, <<>>)>>
    ELSE <<>>

\* the drawText loop of finalizeTextEdit: each line of the session from the
\* anchor, first baseline at anchor + ascent, one line-height apart
TextMark == Mark(TextTool, textEditPosition, textEditPosition,
                 textEdit.font, textEdit.lines)

\* --------------------------------------------------------- hit-testing
handleRect == QRectPS(Pt(0, 0), QSize(handleSize, handleSize))

\* where each handle sits on rectangle r
HandlePoint(r, h) ==
    CASE h = "TopLeft" -> TopLeft(r)
      [] h = "TopRight" -> TopRight(r)
      [] h = "BottomLeft" -> BottomLeft(r)
      [] h = "BottomRight" -> BottomRight(r)
      [] h = "Top" -> PtAdd(TopLeft(r), Pt(CppDiv(Width(r), 2), 0))
      [] h = "Bottom" -> PtAdd(BottomLeft(r), Pt(CppDiv(Width(r), 2), 0))
      [] h = "Left" -> PtAdd(TopLeft(r), Pt(0, CppDiv(Height(r), 2)))
      [] h = "Right" -> PtAdd(TopRight(r), Pt(0, CppDiv(Height(r), 2)))

\* handleRect.translated(handle position).contains(point)
HandleHit(r, h, point) == Contains(Translated(handleRect, HandlePoint(r, h)), point)

handleAtPointEdgesFirst(point) ==
    IF HandleHit(selectionRect, "Top", point) THEN "Top"
    ELSE IF HandleHit(selectionRect, "Bottom", point) THEN "Bottom"
    ELSE IF HandleHit(selectionRect, "Left", point) THEN "Left"
    ELSE IF HandleHit(selectionRect, "Right", point) THEN "Right"
    ELSE IF HandleHit(selectionRect, "TopLeft", point) THEN "TopLeft"
    ELSE IF HandleHit(selectionRect, "TopRight", point) THEN "TopRight"
    ELSE IF HandleHit(selectionRect, "BottomLeft", point) THEN "BottomLeft"
    ELSE IF HandleHit(selectionRect, "BottomRight", point) THEN "BottomRight"
    ELSE NoHandle

handleAtPoint(point) ==
    IF HandleHit(selectionRect, "TopLeft", point) THEN "TopLeft"
    ELSE IF HandleHit(selectionRect, "TopRight", point) THEN "TopRight"
    ELSE IF HandleHit(selectionRect, "BottomLeft", point) THEN "BottomLeft"
    ELSE IF HandleHit(selectionRect, "BottomRight", point) THEN "BottomRight"
    ELSE IF HandleHit(selectionRect, "Top", point) THEN "Top"
    ELSE IF HandleHit(selectionRect, "Bottom", point) THEN "Bottom"
    ELSE IF HandleHit(selectionRect, "Left", point) THEN "Left"
    ELSE IF HandleHit(selectionRect, "Right", point) THEN "Right"
    ELSE NoHandle

\* resizeSelection(point) for the handle h: the rectangle it leaves
resizeSelection(r, h, point) ==
    Normalized(
        CASE h = "TopLeft" -> [r EXCEPT !.x1 = point.x, !.y1 = point.y]
          [] h = "TopRight" -> [r EXCEPT !.x2 = point.x, !.y1 = point.y]
          [] h = "BottomLeft" -> [r EXCEPT !.x1 = point.x, !.y2 = point.y]
          [] h = "BottomRight" -> [r EXCEPT !.x2 = point.x, !.y2 = point.y]
          [] h = "Top" -> [r EXCEPT !.y1 = point.y]
          [] h = "Bottom" -> [r EXCEPT !.y2 = point.y]
          [] h = "Left" -> [r EXCEPT !.x1 = point.x]
          [] h = "Right" -> [r EXCEPT !.x2 = point.x]
          [] OTHER -> r)

\* ------------------------------------------------------------ undo stack
saveStateForUndoTwice == Append(Append(undoStack, drawingPixmap), drawingPixmap)

\* undoStack.push(drawingPixmap)
saveStateForUndo == Append(undoStack, drawingPixmap)

undoPopsBottom ==
    /\ visible
    /\ IF undoStack # <<>>
       THEN /\ drawingPixmap' = Head(undoStack)
            /\ undoStack' = Tail(undoStack)
       ELSE UNCHANGED layerVars
    /\ lastEvent' = "undo"
    /\ UNCHANGED <<qtMajor, toolVars, selVars, drawVars, borderWidth, textVars,
                   currentFont, outVars, closeVars>>

\* undo(), from the Ctrl+Z shortcut
undo ==
    /\ visible
    /\ IF undoStack # <<>>
       THEN /\ drawingPixmap' = undoStack[Len(undoStack)]
            /\ undoStack' = SubSeq(undoStack, 1, Len(undoStack) - 1)
       ELSE UNCHANGED layerVars
    /\ lastEvent' = "undo"
    /\ UNCHANGED <<qtMajor, toolVars, selVars, drawVars, borderWidth, textVars,
                   currentFont, outVars, closeVars>>


\* ------------------------------------------------------------ text session
finalizeTextEditKeepsEdit ==
    IF textEdit # NullEdit
    THEN /\ Len(undoStack) < MaxUndo
         /\ Len(drawingPixmap) < MaxMarks
         /\ undoStack' = saveStateForUndo
         /\ drawingPixmap' = Append(drawingPixmap, TextMark)
         /\ UNCHANGED textVars
    ELSE UNCHANGED <<layerVars, textVars>>

\* finalizeTextEdit(): what it does to the layer, the stack and the session
finalizeTextEdit ==
    IF textEdit # NullEdit
    THEN /\ Len(undoStack) < MaxUndo
         /\ Len(drawingPixmap) < MaxMarks
         /\ undoStack' = saveStateForUndo
         /\ drawingPixmap' = Append(drawingPixmap, TextMark)
         /\ textEdit' = NullEdit
         /\ qTextEdits' = qTextEdits - 1
         /\ UNCHANGED textEditPosition
    ELSE UNCHANGED <<layerVars, textVars>>

\* the user edits the open QTextEdit (adjustTextEditSize only resizes it)
textChanged(lines) ==
    /\ visible
    /\ textEdit # NullEdit
    /\ textEdit' = [textEdit EXCEPT !.lines = lines]
    /\ lastEvent' = "textChanged"
    /\ UNCHANGED <<qtMajor, toolVars, selVars, drawVars, borderWidth, layerVars,
                   textEditPosition, qTextEdits, currentFont, outVars, closeVars>>

\* ------------------------------------------------------------------ close
\* close() called n times in one handler: each call delivers a closeEvent,
\* which emits screenshotClosed() and drops the open QTextEdit uncommitted
closeEvent(n) ==
    /\ closedCount' = closedCount + n
    /\ visible' = FALSE
    /\ textEdit' = NullEdit
    /\ qTextEdits' = IF textEdit # NullEdit THEN qTextEdits - 1 ELSE qTextEdits

\* Editor::deselectTools(): the toolbar drops its tool; whether it also
\* emits toolChanged(None) is the Editor's business
deselectTools ==
    /\ editorTool' = NoTool
    /\ currentTool' \in {currentTool, NoTool}

\* ---------------------------------------------------------- pointer events
mousePressEvent(p) ==
    /\ visible
    /\ lastEvent' = "mousePress"
    /\ IF editorTool = NoTool
       THEN /\ LET handle == handleAtPoint(p) IN
               IF handle # NoHandle
               THEN /\ currentHandle' = handle
                    /\ handleOffset' = PtSub(p, TopLeft(selectionRect))
                    /\ UNCHANGED <<selectionStarted, movingSelection,
                                   selectionRect, origin, selectionOffset>>
               ELSE IF Contains(selectionRect, p)
               THEN /\ movingSelection' = TRUE
                    /\ selectionOffset' = PtSub(p, TopLeft(selectionRect))
                    /\ UNCHANGED <<selectionStarted, currentHandle,
                                   selectionRect, origin, handleOffset>>
               ELSE /\ selectionStarted' = TRUE
                    /\ origin' = p
                    /\ selectionRect' = QRectPS(p, QSizeDefault)
                    /\ currentHandle' = NoHandle
                    /\ movingSelection' = FALSE
                    /\ UNCHANGED <<handleOffset, selectionOffset>>
            /\ UNCHANGED <<drawVars, layerVars, textVars>>
       ELSE IF editorTool = TextTool
       THEN /\ IF textEdit = NullEdit
               THEN /\ textEdit' = OpenEdit(<<"">>, currentFont)
                    /\ qTextEdits' = qTextEdits + 1
                    /\ textEditPosition' = p
                    /\ UNCHANGED layerVars
               ELSE finalizeTextEdit
            /\ UNCHANGED <<selVars, drawVars>>
       ELSE /\ Len(undoStack) < MaxUndo
            /\ undoStack' = saveStateForUndo
            /\ drawing' = TRUE
            /\ lastPoint' = p
            /\ origin' = p
            /\ IF editorTool # Pen
               THEN /\ shapeDrawing' = TRUE
                    /\ currentShapeRect' = QRectPS(p, QSizeDefault)
               ELSE UNCHANGED <<shapeDrawing, currentShapeRect>>
            /\ UNCHANGED <<selectionStarted, movingSelection, currentHandle,
                           selectionRect, handleOffset, selectionOffset,
                           drawingEnd, drawingPixmap, textVars>>
    /\ UNCHANGED <<qtMajor, toolVars, borderWidth, currentFont, outVars,
                   closeVars>>

mouseMoveEventCommitsShape(p) ==
    /\ visible
    /\ lastEvent' = "mouseMove"
    /\ IF selectionStarted
       THEN /\ selectionRect' = Normalized(QRectPP(origin, p))
            /\ UNCHANGED <<lastPoint, drawingEnd, currentShapeRect,
                           drawingPixmap>>
       ELSE IF drawing /\ editorTool = Pen
       THEN /\ Len(drawingPixmap) < MaxMarks
            /\ drawingPixmap' = Append(drawingPixmap, PenMark(p))
            /\ lastPoint' = p
            /\ UNCHANGED <<selectionRect, drawingEnd, currentShapeRect>>
       ELSE IF shapeDrawing
       THEN /\ Len(drawingPixmap) + Len(ShapeMarks) <= MaxMarks
            /\ currentShapeRect' = Normalized(QRectPP(lastPoint, p))
            /\ drawingEnd' = p
            /\ drawingPixmap' = drawingPixmap \o ShapeMarks
            /\ UNCHANGED <<selectionRect, lastPoint>>
       ELSE IF movingSelection
       THEN /\ selectionRect' = MoveTopLeft(selectionRect,
                                            PtSub(p, selectionOffset))
            /\ UNCHANGED <<lastPoint, drawingEnd, currentShapeRect,
                           drawingPixmap>>
       ELSE UNCHANGED <<selectionRect, lastPoint, drawingEnd,
                        currentShapeRect, drawingPixmap>>
    /\ UNCHANGED <<qtMajor, toolVars, selectionStarted, movingSelection,
                   currentHandle, origin, handleOffset, selectionOffset,
                   drawing, shapeDrawing, borderWidth, undoStack, textVars,
                   currentFont, outVars, closeVars>>

mouseMoveEvent(p) ==
    /\ visible
    /\ lastEvent' = "mouseMove"
    /\ IF selectionStarted
       THEN /\ selectionRect' = Normalized(QRectPP(origin, p))
            /\ UNCHANGED <<lastPoint, drawingEnd, currentShapeRect,
                           drawingPixmap>>
       ELSE IF drawing /\ editorTool = Pen
       THEN /\ Len(drawingPixmap) < MaxMarks
            /\ drawingPixmap' = Append(drawingPixmap, PenMark(p))
            /\ lastPoint' = p
            /\ UNCHANGED <<selectionRect, drawingEnd, currentShapeRect>>
       ELSE IF shapeDrawing
       THEN /\ currentShapeRect' = Normalized(QRectPP(lastPoint, p))
            /\ drawingEnd' = p
            /\ UNCHANGED <<selectionRect, lastPoint, drawingPixmap>>
       ELSE IF movingSelection
       THEN /\ selectionRect' = MoveTopLeft(selectionRect,
                                            PtSub(p, selectionOffset))
            /\ UNCHANGED <<lastPoint, drawingEnd, currentShapeRect,
                           drawingPixmap>>
       ELSE UNCHANGED <<selectionRect, lastPoint, drawingEnd,
                        currentShapeRect, drawingPixmap>>
    /\ UNCHANGED <<qtMajor, toolVars, selectionStarted, movingSelection,
                   currentHandle, origin, handleOffset, selectionOffset,
                   drawing, shapeDrawing, borderWidth, undoStack, textVars,
                   currentFont, outVars, closeVars>>

mouseReleaseEventKeepsHandle ==
    /\ visible
    /\ lastEvent' = "mouseRelease"
    /\ selectionStarted' = FALSE
    /\ movingSelection' = FALSE
    /\ drawing' = FALSE
    /\ IF shapeDrawing
       THEN /\ Len(undoStack) < MaxUndo
            /\ Len(drawingPixmap) + Len(ShapeMarks) <= MaxMarks
            /\ undoStack' = saveStateForUndo
            /\ drawingPixmap' = drawingPixmap \o ShapeMarks
            /\ shapeDrawing' = FALSE
       ELSE UNCHANGED <<shapeDrawing, layerVars>>
    /\ UNCHANGED <<qtMajor, toolVars, currentHandle, selectionRect, origin,
                   handleOffset, selectionOffset, lastPoint, drawingEnd,
                   currentShapeRect, borderWidth, textVars, currentFont,
                   outVars, closeVars>>

mouseReleaseEvent ==
    /\ visible
    /\ lastEvent' = "mouseRelease"
    /\ selectionStarted' = FALSE
    /\ movingSelection' = FALSE
    /\ currentHandle' = NoHandle
    /\ drawing' = FALSE
    /\ IF shapeDrawing
       THEN /\ Len(undoStack) < MaxUndo
            /\ Len(drawingPixmap) + Len(ShapeMarks) <= MaxMarks
            /\ undoStack' = saveStateForUndo
            /\ drawingPixmap' = drawingPixmap \o ShapeMarks
            /\ shapeDrawing' = FALSE
       ELSE UNCHANGED <<shapeDrawing, layerVars>>
    /\ UNCHANGED <<qtMajor, toolVars, selectionRect, origin, handleOffset,
                   selectionOffset, lastPoint, drawingEnd, currentShapeRect,
                   borderWidth, textVars, currentFont, outVars, closeVars>>


\* --------------------------------------------------------------- clipboard
\* what copySelectionToClipboard() hands to the clipboard: the captured image
\* with the annotation layer painted over it, cut to the selection when that
\* is valid (QPixmap::copy clips the rectangle to the pixmap)
ClipboardPixmap ==
    [base |-> "originalPixmap",
     layer |-> drawingPixmap,
     rect |-> IF IsValid(selectionRect)
              THEN Intersected(ImageRect, selectionRect)
              ELSE ImageRect]

\* copySelectionToClipboard(), from the Ctrl+C shortcut or the toolbar
copySelectionToClipboard ==
    /\ visible
    /\ lastEvent' = "copy"
    /\ clipboard' = <<ClipboardPixmap>>
    /\ closeEvent(1)
    /\ UNCHANGED <<qtMajor, toolVars, selVars, drawVars, borderWidth, layerVars,
                   textEditPosition, currentFont, savedFile>>

\* ---------------------------------------------------------------- keyboard
escapeShortcut ==
    /\ visible
    /\ lastEvent' = "escapeShortcut"
    /\ IF editorTool # NoTool
       THEN /\ deselectTools
            /\ UNCHANGED <<textEdit, qTextEdits, closeVars>>
       ELSE /\ closeEvent(1)
            /\ UNCHANGED toolVars
    /\ UNCHANGED <<qtMajor, selVars, drawVars, borderWidth, layerVars,
                   textEditPosition, currentFont, outVars>>

keyPressEventFinalizeDeselects(key) ==
    /\ visible
    /\ lastEvent' = "keyPress"
    /\ IF editorTool # NoTool /\ key = "Escape"
       THEN IF editorTool = TextTool /\ textEdit # NullEdit
            THEN /\ finalizeTextEdit
                 /\ deselectTools
                 /\ UNCHANGED <<clipboard, closeVars>>
            ELSE /\ deselectTools
                 /\ UNCHANGED <<layerVars, textVars, clipboard, closeVars>>
       ELSE IF key = "Escape"
       THEN /\ closeEvent(1)
            /\ UNCHANGED <<toolVars, layerVars, textEditPosition, clipboard>>
       ELSE IF key = "Ctrl+C"
       THEN /\ clipboard' = <<ClipboardPixmap>>
            /\ closeEvent(2)
            /\ UNCHANGED <<toolVars, layerVars, textEditPosition>>
       ELSE UNCHANGED <<toolVars, layerVars, textVars, clipboard, closeVars>>
    /\ UNCHANGED <<qtMajor, selVars, drawVars, borderWidth, currentFont,
                   savedFile>>

keyPressEvent(key) ==
    /\ visible
    /\ lastEvent' = "keyPress"
    /\ IF editorTool # NoTool /\ key = "Escape"
       THEN IF editorTool = TextTool /\ textEdit # NullEdit
            THEN /\ finalizeTextEdit
                 /\ UNCHANGED <<toolVars, clipboard, closeVars>>
            ELSE /\ deselectTools
                 /\ UNCHANGED <<layerVars, textVars, clipboard, closeVars>>
       ELSE IF key = "Escape"
       THEN /\ closeEvent(1)
            /\ UNCHANGED <<toolVars, layerVars, textEditPosition, clipboard>>
       ELSE IF key = "Ctrl+C"
       THEN /\ clipboard' = <<ClipboardPixmap>>
            /\ closeEvent(2)
            /\ UNCHANGED <<toolVars, layerVars, textEditPosition>>
       ELSE UNCHANGED <<toolVars, layerVars, textVars, clipboard, closeVars>>
    /\ UNCHANGED <<qtMajor, selVars, drawVars, borderWidth, currentFont,
                   savedFile>>

\* ------------------------------------------------------------------- wheel
WheelWidthFloorDiv(delta) ==
    Clamp(borderWidth + (delta \div WheelStep), MinBorderWidth, MaxBorderWidth)

\* borderWidth after a wheel event with a drawing tool active
WheelWidth(delta) ==
    Clamp(borderWidth + CppDiv(delta, WheelStep), MinBorderWidth, MaxBorderWidth)

wheelEvent(delta) ==
    /\ visible
    /\ lastEvent' = "wheel"
    /\ IF editorTool # NoTool /\ editorTool # TextTool
       THEN borderWidth' = WheelWidth(delta)
       ELSE UNCHANGED borderWidth
    /\ IF editorTool = TextTool /\ textEdit # NullEdit
       THEN LET newSize == currentFont + CppDiv(delta, WheelStep) IN
            /\ newSize <= MaxFontSize
            /\ IF newSize > 0
               THEN /\ currentFont' = newSize
                    /\ textEdit' = [textEdit EXCEPT !.font = newSize]
               ELSE UNCHANGED <<currentFont, textEdit>>
       ELSE UNCHANGED <<currentFont, textEdit>>
    /\ UNCHANGED <<qtMajor, toolVars, selVars, drawVars, layerVars,
                   textEditPosition, qTextEdits, outVars, closeVars>>

\* ----------------------------------------------------------------- toolbar
\* the toolbar selects `tool` and emits toolChanged(tool)
onToolSelected(tool) ==
    /\ visible
    /\ lastEvent' = "toolSelected"
    /\ editorTool' = tool
    /\ currentTool' = tool
    /\ UNCHANGED <<qtMajor, selVars, drawVars, borderWidth, layerVars, textVars,
                   currentFont, outVars, closeVars>>

onSaveRequestedIgnoresCancel(filePath) ==
    /\ visible
    /\ lastEvent' = "save"
    /\ savedFile' = <<[path |-> filePath, image |-> "originalPixmap"]>>
    /\ closeEvent(1)
    /\ UNCHANGED <<qtMajor, toolVars, selVars, drawVars, borderWidth, layerVars,
                   textEditPosition, currentFont, clipboard>>

\* filePath: what the save dialog returned ("" when cancelled)
onSaveRequested(filePath) ==
    /\ visible
    /\ lastEvent' = "save"
    /\ IF filePath # ""
       THEN /\ savedFile' = <<[path |-> filePath, image |-> "originalPixmap"]>>
            /\ closeEvent(1)
       ELSE UNCHANGED <<savedFile, textEdit, qTextEdits, closeVars>>
    /\ UNCHANGED <<qtMajor, toolVars, selVars, drawVars, borderWidth, layerVars,
                   textEditPosition, currentFont, clipboard>>

onCloseRequested ==
    /\ visible
    /\ lastEvent' = "closeRequested"
    /\ closeEvent(1)
    /\ UNCHANGED <<qtMajor, toolVars, selVars, drawVars, borderWidth, layerVars,
                   textEditPosition, currentFont, outVars>>

onPublishRequested ==
    /\ visible
    /\ lastEvent' = "publish"
    /\ UNCHANGED <<qtMajor, toolVars, selVars, drawVars, borderWidth, layerVars,
                   textVars, currentFont, outVars, closeVars>>

paintEvent ==
    /\ visible
    /\ lastEvent' = "paint"
    /\ UNCHANGED <<qtMajor, toolVars, selVars, drawVars, borderWidth, layerVars,
                   textVars, currentFont, outVars, closeVars>>

\* ---------------------------------------------------------- specifications
\* Every handler, over the smallest inputs that reach each of them: one
\* pointer position, no tool or a shape tool or the Text tool, one large
\* scroll.
Points == {Pt(10, 10)}
ToolChoices == {NoTool, Rectangle, TextTool}
Deltas == {-2400}
Texts == {<<"Hi">>}
Keys == {"Escape", "Ctrl+C", "Other"}
Paths == {"", "shot.png"}

Next ==
    \/ \E p \in Points : mousePressEvent(p)
    \/ \E p \in Points : mouseMoveEvent(p)
    \/ mouseReleaseEvent
    \/ \E key \in Keys : keyPressEvent(key)
    \/ escapeShortcut
    \/ undo
    \/ copySelectionToClipboard
    \/ \E delta \in Deltas : wheelEvent(delta)
    \/ \E tool \in ToolChoices : onToolSelected(tool)
    \/ \E lines \in Texts : textChanged(lines)
    \/ \E filePath \in Paths : onSaveRequested(filePath)
    \/ onCloseRequested
    \/ onPublishRequested
    \/ paintEvent

Spec == Init /\ [][Next]_vars

\* Drawing and undo: the user has picked a drawing tool before touching the
\* image, and draws between two positions.
DrawPoints == {Pt(10, 10), Pt(60, 40)}
DrawTools == {Pen, Rectangle}

NextDraw ==
    \/ \E p \in DrawPoints : editorTool # NoTool /\ mousePressEvent(p)
    \/ \E p \in DrawPoints : mouseMoveEvent(p)
    \/ mouseReleaseEvent
    \/ undo
    \/ \E tool \in DrawTools : onToolSelected(tool)

SpecDraw == Init /\ [][NextDraw]_vars

\* The text session: the Text tool and the Pen, clicks at two positions,
\* typing, Escape through either of its two handlers, undo.
TextPoints == {Pt(50, 50), Pt(60, 40)}
TextTools == {TextTool, Pen}
TextInputs == {<<"Hi">>, <<"Hi", "there">>}

NextText ==
    \/ \E p \in TextPoints : editorTool # NoTool /\ mousePressEvent(p)
    \/ mouseReleaseEvent
    \/ keyPressEvent("Escape")
    \/ escapeShortcut
    \/ undo
    \/ \E tool \in TextTools : onToolSelected(tool)
    \/ \E lines \in TextInputs : textChanged(lines)

SpecText == Init /\ [][NextText]_vars

\* Selection: no tool is ever picked; the pointer visits a grid fine enough
\* for handle regions to overlap and coarse enough to leave them.
SelXs == {10, 15, 40, 60}
SelYs == {10, 40}
SelPoints == {Pt(x, y) : x \in SelXs, y \in SelYs}

NextSel ==
    \/ \E p \in SelPoints : mousePressEvent(p)
    \/ \E p \in SelPoints : mouseMoveEvent(p)
    \/ mouseReleaseEvent
    \/ copySelectionToClipboard

SpecSel == Init /\ [][NextSel]_vars

\* The wheel: no tool, two drawing tools and the Text tool, whose session a
\* click opens; scrolls of less than a notch, one notch, two notches and
\* many, either way.
WheelDeltas == {-2400, -240, -120, -60, 60, 120, 240, 2400}
WheelTools == {NoTool, Pen, Arrow, TextTool}
WheelPoints == {Pt(50, 50)}

NextWheel ==
    \/ \E delta \in WheelDeltas : wheelEvent(delta)
    \/ \E tool \in WheelTools : onToolSelected(tool)
    \/ \E p \in WheelPoints :
           editorTool = TextTool /\ textEdit = NullEdit /\ mousePressEvent(p)
    \/ escapeShortcut

SpecWheel == Init /\ [][NextWheel]_vars

\* Copy: a selection dragged between two positions, with or without a pen
\* stroke on the layer, then copied.
CopyPoints == {Pt(10, 10), Pt(60, 40)}
CopyTools == {NoTool, Pen}

NextCopy ==
    \/ \E p \in CopyPoints : mousePressEvent(p)
    \/ \E p \in CopyPoints : mouseMoveEvent(p)
    \/ mouseReleaseEvent
    \/ \E tool \in CopyTools : onToolSelected(tool)
    \/ copySelectionToClipboard
    \/ keyPressEvent("Ctrl+C")

SpecCopy == Init /\ [][NextCopy]_vars

\* Save and close: a pen stroke or a selection between two positions, an
\* open text session, then a save dialog that is cancelled or not, or the
\* toolbar's close button.
SavePoints == {Pt(10, 10), Pt(60, 40)}
SaveTools == {NoTool, Pen, TextTool}

NextSave ==
    \/ \E p \in SavePoints : mousePressEvent(p)
    \/ \E p \in SavePoints : mouseMoveEvent(p)
    \/ mouseReleaseEvent
    \/ \E tool \in SaveTools : onToolSelected(tool)
    \/ \E filePath \in Paths : onSaveRequested(filePath)
    \/ onCloseRequested

SpecSave == Init /\ [][NextSave]_vars

\* Shapes: one of the four shape tools is picked before the image is
\* touched; gestures between two positions, with or without a move.
ShapePoints == {Pt(10, 10), Pt(60, 40)}

NextShape ==
    \/ \E p \in ShapePoints : editorTool # NoTool /\ mousePressEvent(p)
    \/ \E p \in ShapePoints : mouseMoveEvent(p)
    \/ mouseReleaseEvent
    \/ undo
    \/ \E tool \in ShapeTools : onToolSelected(tool)

SpecShape == Init /\ [][NextShape]_vars

\* Gestures of every kind: selecting, grabbing and moving with no tool,
\* drawing with the Line tool, the tool switched at any moment.
GesturePoints == {Pt(10, 10), Pt(60, 40)}
GestureTools == {NoTool, Line}

NextGesture ==
    \/ \E p \in GesturePoints : mousePressEvent(p)
    \/ \E p \in GesturePoints : mouseMoveEvent(p)
    \/ mouseReleaseEvent
    \/ \E tool \in GestureTools : onToolSelected(tool)

SpecGesture == Init /\ [][NextGesture]_vars

\* ------------------------------------------------------------------ claims
Last(seq) == seq[Len(seq)]
Front(seq) == SubSeq(seq, 1, Len(seq) - 1)
Sign(a) == IF a < 0 THEN -1 ELSE IF a > 0 THEN 1 ELSE 0

\* C1: undo is a strict LIFO over layer snapshots. Every change of the undo
\* stack is either a push of the current layer on top or a pop of the top
\* into the layer; undo() on a non-empty stack is that pop (so after pushes
\* S1..Sn the k-th undo restores S(n-k+1)), and undo() on an empty stack
\* changes neither the layer nor the stack.
C1_UndoIsLIFO ==
    [][/\ (lastEvent' = "undo" /\ undoStack # <<>>) =>
              /\ drawingPixmap' = Last(undoStack)
              /\ undoStack' = Front(undoStack)
       /\ (lastEvent' = "undo" /\ undoStack = <<>>) =>
              /\ drawingPixmap' = drawingPixmap
              /\ undoStack' = <<>>
       /\ (undoStack' # undoStack) =>
              \/ undoStack' = Append(undoStack, drawingPixmap)
              \/ /\ undoStack # <<>>
                 /\ undoStack' = Front(undoStack)
                 /\ drawingPixmap' = Last(undoStack)
      ]_vars

\* C1 witness: two snapshots were pushed, the second of a non-empty layer, and
\* one undo has restored that second snapshot, leaving the first on the stack.
C1_Witness ==
    /\ lastEvent = "undo"
    /\ Len(undoStack) = 1
    /\ undoStack[1] = <<>>
    /\ drawingPixmap # <<>>

C3_ShapeGestureOneSnapshot ==
    [][/\ (lastEvent' = "mousePress" /\ editorTool \in ShapeTools) =>
              undoStack' = undoStack
       /\ (lastEvent' = "mouseMove" /\ shapeDrawing) =>
              undoStack' = undoStack
       /\ (lastEvent' = "mouseRelease" /\ shapeDrawing) =>
              undoStack' = Append(undoStack, drawingPixmap)
      ]_vars

\* C4 (as claimed): the selection rectangle never has a negative width or
\* height.
C4_SelectionNormalized ==
    Width(selectionRect) >= 0 /\ Height(selectionRect) >= 0

\* the handles whose region contains point, by their place in HandleOrder
HitIndices(point) ==
    {i \in 1..Len(HandleOrder) : HandleHit(selectionRect, HandleOrder[i], point)}

\* C5: for every selection rectangle and every point, handleAtPoint returns
\* the earliest handle of TopLeft, TopRight, BottomLeft, BottomRight, Top,
\* Bottom, Left, Right whose region contains the point, and None exactly when
\* no region contains it.
C5_FirstHandleWins ==
    \A point \in SelPoints :
        LET hits == HitIndices(point) IN
        /\ (hits = {}) <=> (handleAtPoint(point) = NoHandle)
        /\ hits # {} =>
              \E i \in hits :
                  /\ handleAtPoint(point) = HandleOrder[i]
                  /\ \A j \in hits : i <= j

\* C5 witness: a pointer-down at a point inside the regions of a corner and
\* of an edge handle (and of no earlier handle than that corner) has grabbed
\* the corner.
C5_Witness ==
    /\ lastEvent = "mousePress"
    /\ IsValid(selectionRect)
    /\ currentHandle = "BottomLeft"
    /\ LET hits == HitIndices(PtAdd(TopLeft(selectionRect), handleOffset)) IN
       /\ 3 \in hits
       /\ 1 \notin hits /\ 2 \notin hits
       /\ \E i \in hits : i > 4

\* C6 (as claimed): a handle's region is the square centered on the handle
\* position: a point hits it exactly when it is within handleSize / 2 of the
\* position on both axes.
C6_HandleRegionCentered ==
    IsValid(selectionRect) =>
        \A i \in 1..Len(HandleOrder) : \A point \in SelPoints :
            LET h == HandlePoint(selectionRect, HandleOrder[i]) IN
            HandleHit(selectionRect, HandleOrder[i], point) <=>
                /\ Abs(point.x - h.x) <= handleSize \div 2
                /\ Abs(point.y - h.y) <= handleSize \div 2

\* C7: the stroke width is in [1, 20] in every state, and a wheel event with
\* a drawing tool other than Text active moves it by one step per whole 120
\* units of delta, in the direction of delta, clamped to [1, 20]; with no
\* tool or the Text tool it leaves the width alone.
C7_StrokeWidthClamped ==
    /\ [](borderWidth \in MinBorderWidth..MaxBorderWidth)
    /\ [][\A delta \in WheelDeltas : wheelEvent(delta) =>
              IF editorTool \in Tools \ {NoTool, TextTool}
              THEN borderWidth' =
                       Clamp(borderWidth + Sign(delta) * (Abs(delta) \div 120),
                             1, 20)
              ELSE borderWidth' = borderWidth
         ]_vars

\* C7 witness: a scroll with the Pen active has left the width at its upper
\* bound.
C7_Witness ==
    /\ lastEvent = "wheel"
    /\ editorTool = Pen
    /\ borderWidth = MaxBorderWidth

\* C8: with the Text tool active a pointer-down with no session open opens
\* one anchored at the click and touches neither the layer nor the stack; a
\* pointer-down with a session open pushes the layer as one snapshot, paints
\* the session's lines at the anchor in the session's font, and destroys the
\* session. At most one session exists in any state, and textEdit points to
\* it exactly when it exists.
C8_TextClicksAlternate ==
    /\ [](/\ qTextEdits \in {0, 1}
          /\ (qTextEdits = 0) <=> (textEdit = NullEdit))
    /\ [][\A p \in TextPoints :
              (mousePressEvent(p) /\ editorTool = TextTool) =>
                  IF textEdit = NullEdit
                  THEN /\ textEdit' # NullEdit
                       /\ qTextEdits' = 1
                       /\ textEditPosition' = p
                       /\ drawingPixmap' = drawingPixmap
                       /\ undoStack' = undoStack
                  ELSE /\ undoStack' = Append(undoStack, drawingPixmap)
                       /\ drawingPixmap' =
                              Append(drawingPixmap,
                                     Mark(TextTool, textEditPosition,
                                          textEditPosition, textEdit.font,
                                          textEdit.lines))
                       /\ textEdit' = NullEdit
                       /\ qTextEdits' = 0
         ]_vars

\* C8 witness: a click at (50,50), "Hi" typed, and a second click: the layer
\* holds "Hi" anchored at (50,50), one snapshot was pushed, no session is left.
C8_Witness ==
    /\ lastEvent = "mousePress"
    /\ editorTool = TextTool
    /\ textEdit = NullEdit
    /\ qTextEdits = 0
    /\ undoStack = << <<>> >>
    /\ drawingPixmap = <<Mark(TextTool, Pt(50, 50), Pt(50, 50), InitFontSize,
                              <<"Hi">>)>>

\* C9 (as claimed): Escape with a session open finalizes it, through
\* whichever handler receives the key: a snapshot is pushed, the text is
\* painted into the layer and the session is destroyed.
C9_EscapeFinalizes ==
    [][(lastEvent' \in {"keyPress", "escapeShortcut"} /\ textEdit # NullEdit) =>
           /\ undoStack' = Append(undoStack, drawingPixmap)
           /\ drawingPixmap' = Append(drawingPixmap, TextMark)
           /\ textEdit' = NullEdit
      ]_vars

\* the selection is the one a drag from origin to point leaves
DraggedTo(point) == selectionRect = Normalized(QRectPP(origin, point))

\* C10 (as claimed), on drags right- and downwards: after a drag from origin
\* to point and a copy, the clipboard holds the composite cut to |x2-x1| by
\* |y2-y1| pixels (50 by 30 for a drag from (10,10) to (60,40)).
C10_CopyCropsToDragExtent ==
    \A point \in CopyPoints :
        (/\ clipboard # <<>>
         /\ DraggedTo(point)
         /\ point.x > origin.x /\ point.y > origin.y) =>
            /\ Width(clipboard[1].rect) = Abs(point.x - origin.x)
            /\ Height(clipboard[1].rect) = Abs(point.y - origin.y)

\* C11: a save request whose dialog is cancelled changes nothing and leaves
\* the display open; otherwise exactly the captured image, whatever is on the
\* annotation layer, is written to the chosen path and the display closes.
C11_SaveOnlyCapturedImage ==
    [][lastEvent' = "save" =>
           \/ /\ visible'
              /\ UNCHANGED <<qtMajor, toolVars, selVars, drawVars, borderWidth,
                             layerVars, textVars, currentFont, outVars,
                             closeVars>>
           \/ /\ \E filePath \in Paths \ {""} :
                     savedFile' = <<[path |-> filePath,
                                     image |-> "originalPixmap"]>>
              /\ ~visible'
              /\ closedCount' = closedCount + 1
              /\ UNCHANGED <<toolVars, selVars, drawVars, layerVars, clipboard>>
      ]_vars

\* C11 witness: with a pen stroke on the layer, a save to a chosen path has
\* written the captured image alone and closed the display.
C11_Witness ==
    /\ lastEvent = "save"
    /\ drawingPixmap # <<>>
    /\ savedFile = <<[path |-> "shot.png", image |-> "originalPixmap"]>>
    /\ ~visible

\* C12 (as claimed): screenshotClosed is emitted at most once, whatever
\* events the display receives.
C12_ClosedAtMostOnce == closedCount <= 1

\* C13 (as claimed): the segment a Line or Arrow gesture commits on
\* pointer-up runs from the pointer-down point to the gesture's own final
\* point: the position of its last pointer-move, or the pointer-down point
\* itself when the pointer-up follows the pointer-down with no move between.
C13_SegmentEndsAtOwnPoint ==
    [][(/\ lastEvent' = "mouseRelease"
        /\ shapeDrawing
        /\ editorTool \in {Line, Arrow}
        /\ lastEvent \in {"mousePress", "mouseMove"}) =>
           LET final == IF lastEvent = "mousePress" THEN origin ELSE drawingEnd IN
           drawingPixmap' = Append(drawingPixmap,
               Mark(editorTool, origin, final, borderWidth, <<>>))
      ]_vars

IsStrictPrefix(s, t) == Len(s) < Len(t) /\ SubSeq(t, 1, Len(s)) = s

\* C14 (as claimed): no handler paints into the annotation layer without the
\* layer's pre-gesture content on top of the undo stack: after every
\* pointer or key handler that changed the layer, the stack is not empty and
\* its top is the layer as it was before the gesture painted, so that one
\* undo takes the gesture's painting back.
C14_SnapshotBeforeMutation ==
    [][(/\ lastEvent' \in {"mousePress", "mouseMove", "mouseRelease", "keyPress"}
        /\ drawingPixmap' # drawingPixmap) =>
           /\ undoStack' # <<>>
           /\ IsStrictPrefix(Last(undoStack'), drawingPixmap')
      ]_vars

\* C15 (as claimed): with no tool active, a valid selection and one of its
\* handles grabbed by a pointer-down (no selection being created or moved),
\* a pointer-move to p leaves the selection resized: the grabbed edge or
\* corner set to p, the rectangle normalized again.
C15_HandleDragResizes ==
    [][\A p \in SelPoints :
           (/\ editorTool = NoTool
            /\ IsValid(selectionRect)
            /\ currentHandle # NoHandle
            /\ ~selectionStarted /\ ~movingSelection
            /\ mouseMoveEvent(p)) =>
               selectionRect' = resizeSelection(selectionRect, currentHandle, p)
      ]_vars

\* C16 (as claimed): while the selection is invalid it has no handles:
\* handleAtPoint returns None for every point, and every pointer-down with
\* no tool active starts a new selection at its position.
C16_InvalidSelectionNoHandles ==
    [][\A p \in SelPoints :
           (/\ editorTool = NoTool
            /\ ~IsValid(selectionRect)
            /\ mousePressEvent(p)) =>
               /\ handleAtPoint(p) = NoHandle
               /\ selectionStarted'
               /\ origin' = p
               /\ currentHandle' = NoHandle
               /\ ~movingSelection'
      ]_vars

\* C18 (as claimed): whenever a pen stroke, a shape gesture or a text
\* session is in progress, the active tool (the one the handlers read from
\* the toolbar) is not None.
C18_GestureImpliesTool ==
    (drawing \/ shapeDrawing \/ textEdit # NullEdit) => editorTool # NoTool

\* C19 (as claimed): the active tool changes only in a tool-selection event
\* of the toolbar; every other handler leaves it unchanged.
C19_ToolChangesOnlyBySelection ==
    [][editorTool' # editorTool => lastEvent' = "toolSelected"]_vars

\* C19 (amended): the active tool changes only in a tool-selection event of
\* the toolbar or when Escape is handled with a tool active, which deselects
\* it (to None) unless keyPressEvent finalizes an open text session of the
\* Text tool instead; pointer, scroll, undo, save, copy, close, publish,
\* text-input and paint handlers leave it unchanged.
C19_ToolChangesBySelectionOrEscape ==
    [][/\ editorTool' # editorTool =>
              \/ lastEvent' = "toolSelected"
              \/ /\ lastEvent' \in {"escapeShortcut", "keyPress"}
                 /\ editorTool' = NoTool
                 /\ visible'
                 /\ lastEvent' = "keyPress" =>
                        ~(editorTool = TextTool /\ textEdit # NullEdit)
       /\ (lastEvent' = "escapeShortcut" /\ editorTool # NoTool) =>
              editorTool' = NoTool
      ]_vars

\* C19 witness: Escape, through the shortcut, has deselected the tool in the
\* middle of a shape gesture.
C19_Witness ==
    /\ lastEvent = "escapeShortcut"
    /\ visible
    /\ editorTool = NoTool
    /\ shapeDrawing

\* C20: right after every pointer-up no gesture is in progress:
\* selectionStarted, movingSelection, drawing and shapeDrawing are false and
\* no handle is grabbed; and in every state a shape preview exists only
\* inside a draw gesture (shapeDrawing implies drawing).
C20_ReleaseEndsGestures ==
    /\ lastEvent = "mouseRelease" =>
           /\ ~selectionStarted
           /\ ~movingSelection
           /\ ~drawing
           /\ ~shapeDrawing
           /\ currentHandle = NoHandle
    /\ shapeDrawing => drawing

\* C20 witness: a selection was dragged out, a handle of it was grabbed, and
\* the pointer-up has let go of it.
C20_Witness ==
    /\ lastEvent = "mouseRelease"
    /\ IsValid(selectionRect)
    /\ handleOffset # Pt(0, 0)
    /\ drawingPixmap # <<>>
    /\ currentHandle = NoHandle
    /\ ~drawing

====
